---- MODULE Spec2Model ----
(***************************************************************************)
(* A model of the Knuth-order B-tree of rust/src/b_tree.rs.                *)
(*                                                                         *)
(* A Node is a record [keys, children, leaf, order]; keys and children are *)
(* sequences (Vec), addressed below with the 0-based indices of the source *)
(* (element i of a Vec is s[i + 1]).  BTree.root (an Option) is a sequence *)
(* of length 0 (None) or 1 (Some).  Every operation that can panic returns *)
(* a record with an err field: "none", or the name of the panic.           *)
(***************************************************************************)
EXTENDS Integers, Sequences, FiniteSets, TLC

\* ------------------------------------------------------------------ bounds
MaxOrder == 5
MaxVal == 10
MaxValSmall == 7
MaxHist == 5
MaxDup == 1
MaxGrow == 24

Orders == 3..MaxOrder
Values == 1..MaxVal
SmallValues == 1..MaxValSmall

VARIABLES order, root, present, status, last

vars == <<order, root, present, status, last>>

\* ------------------------------------------------------- Vec operations
\* Vec::insert(i, x)
InsertAt(s, i, x) == SubSeq(s, 1, i) \o <<x>> \o SubSeq(s, i + 1, Len(s))

\* Vec::remove(i)
RemoveAt(s, i) == SubSeq(s, 1, i) \o SubSeq(s, i + 2, Len(s))

\* Vec::split_off(at): the part that stays, and the part that is returned
SplitKeep(s, at) == SubSeq(s, 1, at)

SplitTail(s, at) == SubSeq(s, at + 1, Len(s))

\* The result of a Node method: the node as the method leaves it, the panic
\* that ended it ("none" when it returned), and the branches it took.
Ok(n) == [node |-> n, err |-> "none", ev |-> {}]

Fail(n, e) == [node |-> n, err |-> e, ev |-> {}]

\* the result r, having also taken the branches e
With(r, e) == [r EXCEPT !.ev = @ \cup e]

\* -------------------------------------------------------------- search
RECURSIVE bsearch_loop(_, _, _, _)
bsearch_loop(keys, value, left, right) ==
  IF left < right
  THEN LET mid == left + (right - left) \div 2 IN
       IF keys[mid + 1] = value THEN <<TRUE, mid>>
       ELSE IF keys[mid + 1] < value
            THEN bsearch_loop(keys, value, mid + 1, right)
            ELSE bsearch_loop(keys, value, left, mid)
  ELSE <<FALSE, left>>

binary_search(self, value) == bsearch_loop(self.keys, value, 0, Len(self.keys))

Node_search(self, value) == binary_search(self, value)

RECURSIVE search_loop(_, _)
\* the search loop descending into the child after the one binary_search gives
search_loop_NextChild(node, value) ==
  LET s == Node_search(node, value) IN
  IF s[1] THEN [ret |-> TRUE, err |-> "none"]
  ELSE IF node.leaf THEN [ret |-> FALSE, err |-> "none"]
  ELSE IF s[2] + 1 >= Len(node.children) THEN [ret |-> FALSE, err |-> "IndexOutOfBounds"]
  ELSE search_loop(node.children[s[2] + 2], value)

search_loop(node, value) ==
  LET s == Node_search(node, value) IN
  IF s[1] THEN [ret |-> TRUE, err |-> "none"]
  ELSE IF node.leaf THEN [ret |-> FALSE, err |-> "none"]
  ELSE IF s[2] >= Len(node.children) THEN [ret |-> FALSE, err |-> "IndexOutOfBounds"]
  ELSE search_loop(node.children[s[2] + 1], value)

BTree_search(rt, value) ==
  IF Len(rt) = 0 THEN [ret |-> FALSE, err |-> "none"]
  ELSE search_loop(rt[1], value)

\* ------------------------------------------------------------ traverse
RECURSIVE Node_traverse(_)
RECURSIVE traverse_loop(_, _)
\* traverse without the visit of the last child
traverse_loop_SkipLast(self, i) ==
  IF i < Len(self.keys)
  THEN (IF self.leaf THEN <<>> ELSE Node_traverse(self.children[i + 1]))
       \o <<self.keys[i + 1]>> \o traverse_loop(self, i + 1)
  ELSE <<>>

traverse_loop(self, i) ==
  IF i < Len(self.keys)
  THEN (IF self.leaf THEN <<>> ELSE Node_traverse(self.children[i + 1]))
       \o <<self.keys[i + 1]>> \o traverse_loop(self, i + 1)
  ELSE IF self.leaf THEN <<>> ELSE Node_traverse(self.children[Len(self.keys) + 1])

Node_traverse(self) == traverse_loop(self, 0)

BTree_traverse(rt) == IF Len(rt) = 0 THEN <<>> ELSE Node_traverse(rt[1])

\* --------------------------------------------------------------- insert
\* split_child with the right half starting one key too late (mid + 2)
split_child_DropKey(self, child_idx) ==
  LET child == self.children[child_idx + 1]
      mid == Len(child.keys) \div 2
      left_node == [child EXCEPT
                      !.keys = SplitKeep(child.keys, mid),
                      !.children = IF child.leaf THEN child.children
                                   ELSE SplitKeep(child.children, mid + 1)]
      new_node == [keys |-> SplitTail(child.keys, mid + 2),
                   children |-> IF child.leaf THEN <<>>
                                ELSE SplitTail(child.children, mid + 1),
                   leaf |-> child.leaf, order |-> child.order]
  IN Ok([self EXCEPT
           !.keys = InsertAt(self.keys, child_idx, child.keys[mid + 1]),
           !.children = InsertAt([self.children EXCEPT ![child_idx + 1] = left_node],
                                 child_idx + 1, new_node)])

\* split_child creating the right sibling with leaf: true whatever the child is
split_child_LeafTrue(self, child_idx) ==
  LET child == self.children[child_idx + 1]
      mid == Len(child.keys) \div 2
      left_node == [child EXCEPT
                      !.keys = SplitKeep(child.keys, mid),
                      !.children = IF child.leaf THEN child.children
                                   ELSE SplitKeep(child.children, mid + 1)]
      new_node == [keys |-> SplitTail(child.keys, mid + 1),
                   children |-> IF child.leaf THEN <<>>
                                ELSE SplitTail(child.children, mid + 1),
                   leaf |-> TRUE, order |-> child.order]
  IN Ok([self EXCEPT
           !.keys = InsertAt(self.keys, child_idx, child.keys[mid + 1]),
           !.children = InsertAt([self.children EXCEPT ![child_idx + 1] = left_node],
                                 child_idx + 1, new_node)])

split_child(self, child_idx) ==
  IF child_idx >= Len(self.children) THEN Fail(self, "IndexOutOfBounds")
  ELSE
  LET child == self.children[child_idx + 1]
      mid == Len(child.keys) \div 2
  IN
  IF mid + 1 > Len(child.keys) THEN Fail(self, "SplitOffOutOfBounds")
  ELSE IF ~child.leaf /\ mid + 1 > Len(child.children)
       THEN Fail(self, "SplitOffOutOfBounds")
  ELSE
  LET right_keys == SplitTail(child.keys, mid + 1)
      middle_key == child.keys[mid + 1]
      right_children == IF child.leaf THEN <<>> ELSE SplitTail(child.children, mid + 1)
      left_node == [child EXCEPT
                      !.keys = SplitKeep(child.keys, mid),
                      !.children = IF child.leaf THEN child.children
                                   ELSE SplitKeep(child.children, mid + 1)]
      new_node == [keys |-> right_keys, children |-> right_children,
                   leaf |-> child.leaf, order |-> child.order]
  IN
  IF child_idx > Len(self.keys) THEN Fail(self, "InsertOutOfBounds")
  ELSE Ok([self EXCEPT
             !.keys = InsertAt(self.keys, child_idx, middle_key),
             !.children = InsertAt([self.children EXCEPT ![child_idx + 1] = left_node],
                                   child_idx + 1, new_node)])

RECURSIVE insert_non_full(_, _)
\* insert_non_full returning at once when the value is already a key of the node
insert_non_full_SkipFound(self, value) ==
  LET idx == Node_search(self, value)[2] IN
  IF Node_search(self, value)[1] THEN Ok(self)
  ELSE IF self.leaf THEN Ok([self EXCEPT !.keys = InsertAt(self.keys, idx, value)])
  ELSE
  LET child == self.children[idx + 1] IN
  IF child.order = 3 /\ Len(child.keys) = 2
  THEN LET r == insert_non_full(child, value)
           s1 == [self EXCEPT !.children[idx + 1] = r.node]
       IN IF Len(r.node.keys) = 3
          THEN With(split_child(s1, idx), r.ev \cup {"deferred_split"})
          ELSE With(Ok(s1), r.ev)
  ELSE IF Len(child.keys) = child.order - 1
  THEN LET s1 == split_child(self, idx).node
           idx2 == IF value > s1.keys[idx + 1] THEN idx + 1 ELSE idx
           r == insert_non_full(s1.children[idx2 + 1], value)
       IN With(Ok([s1 EXCEPT !.children[idx2 + 1] = r.node]),
               r.ev \cup {"preemptive_split"})
  ELSE LET r == insert_non_full(child, value)
       IN With(Ok([self EXCEPT !.children[idx + 1] = r.node]), r.ev)

insert_non_full(self, value) ==
  LET idx == Node_search(self, value)[2]
      \* the branch "on_full_node": self holds order - 1 keys or more on entry
      entry == IF Len(self.keys) >= self.order - 1 THEN {"on_full_node"} ELSE {}
      \* the branch "overfull_child_on_return": self is internal and, as the call
      \* returns, one of its children holds more than order - 1 keys
      exit(r) == IF /\ r.err = "none"
                    /\ ~r.node.leaf
                    /\ \E i \in 1..Len(r.node.children) :
                          Len(r.node.children[i].keys) > r.node.order - 1
                 THEN {"overfull_child_on_return"} ELSE {}
      done(r) == With(r, entry \cup exit(r))
  IN
  done(
  IF self.leaf THEN Ok([self EXCEPT !.keys = InsertAt(self.keys, idx, value)])
  ELSE IF idx >= Len(self.children) THEN Fail(self, "IndexOutOfBounds")
  ELSE
  LET child == self.children[idx + 1] IN
  IF child.order = 3 /\ Len(child.keys) = 2
  THEN LET r == insert_non_full(child, value)
           s1 == [self EXCEPT !.children[idx + 1] = r.node]
       IN IF r.err # "none" THEN With(Fail(s1, r.err), r.ev)
          ELSE IF Len(r.node.keys) = 3
               THEN With(split_child(s1, idx), r.ev \cup {"deferred_split"})
          ELSE With(Ok(s1), r.ev)
  ELSE IF Len(child.keys) = child.order - 1
  THEN LET sp == split_child(self, idx) IN
       IF sp.err # "none" THEN sp
       ELSE LET s1 == sp.node
                idx2 == IF value > s1.keys[idx + 1] THEN idx + 1 ELSE idx
                r == insert_non_full(s1.children[idx2 + 1], value)
            IN With(Fail([s1 EXCEPT !.children[idx2 + 1] = r.node], r.err),
                    r.ev \cup {"preemptive_split"})
  ELSE LET r == insert_non_full(child, value)
       IN With(Fail([self EXCEPT !.children[idx + 1] = r.node], r.err), r.ev))

\* BTree::insert without the split_child(0) of the old root under the new root
BTree_insert_NoRootSplit(rt, m, value) ==
  IF Len(rt) = 0
  THEN [root |-> <<[keys |-> <<value>>, children |-> <<>>, leaf |-> TRUE, order |-> m]>>,
        err |-> "none", ev |-> {"new_root_leaf"}]
  ELSE
  LET r == rt[1]
      max_keys_before_split == IF m = 3 THEN 3 ELSE m - 1
  IN
  IF Len(r.keys) < max_keys_before_split
  THEN LET a == insert_non_full(r, value) IN
       IF a.err # "none" THEN [root |-> <<a.node>>, err |-> a.err, ev |-> a.ev]
       ELSE IF m = 3 /\ Len(a.node.keys) = 3
            THEN LET new_root == [keys |-> <<>>, children |-> <<a.node>>,
                                  leaf |-> FALSE, order |-> m]
                     sp == split_child(new_root, 0)
                 IN [root |-> IF sp.err # "none" THEN <<>> ELSE <<sp.node>>,
                     err |-> sp.err, ev |-> a.ev \cup {"root_split_after"}]
            ELSE [root |-> <<a.node>>, err |-> "none", ev |-> a.ev]
  ELSE LET new_root == [keys |-> <<>>, children |-> <<r>>, leaf |-> FALSE, order |-> m]
           a == insert_non_full(new_root, value)
       IN [root |-> IF a.err # "none" THEN <<>> ELSE <<a.node>>,
           err |-> a.err, ev |-> a.ev]

\* BTree::insert: the new root (an Option) and the panic, if any
BTree_insert(rt, m, value) ==
  IF Len(rt) = 0
  THEN [root |-> <<[keys |-> <<value>>, children |-> <<>>, leaf |-> TRUE, order |-> m]>>,
        err |-> "none", ev |-> {"new_root_leaf"}]
  ELSE
  LET r == rt[1]
      max_keys_before_split == IF m = 3 THEN 3 ELSE m - 1
  IN
  IF Len(r.keys) < max_keys_before_split
  THEN LET a == insert_non_full(r, value) IN
       IF a.err # "none" THEN [root |-> <<a.node>>, err |-> a.err, ev |-> a.ev]
       ELSE IF m = 3 /\ Len(a.node.keys) = 3
            THEN LET new_root == [keys |-> <<>>, children |-> <<a.node>>,
                                  leaf |-> FALSE, order |-> m]
                     sp == split_child(new_root, 0)
                 IN [root |-> IF sp.err # "none" THEN <<>> ELSE <<sp.node>>,
                     err |-> sp.err, ev |-> a.ev \cup {"root_split_after"}]
            ELSE [root |-> <<a.node>>, err |-> "none", ev |-> a.ev]
  ELSE LET new_root == [keys |-> <<>>, children |-> <<r>>, leaf |-> FALSE, order |-> m]
           sp == split_child(new_root, 0)
       IN IF sp.err # "none"
          THEN [root |-> <<>>, err |-> sp.err, ev |-> {"root_split_before"}]
          ELSE LET a == insert_non_full(sp.node, value) IN
               [root |-> IF a.err # "none" THEN <<>> ELSE <<a.node>>,
                err |-> a.err, ev |-> a.ev \cup {"root_split_before"}]

\* --------------------------------------------------------------- delete
RECURSIVE get_rightmost(_)
\* get_rightmost taking the first key of the rightmost leaf (first() for last())
get_rightmost_First(node) ==
  IF node.leaf
  THEN IF Len(node.keys) = 0 THEN [val |-> 0, err |-> "LeafMissingKeys"]
       ELSE [val |-> node.keys[1], err |-> "none"]
  ELSE IF Len(node.children) = 0 THEN [val |-> 0, err |-> "NodeMissingChildren"]
       ELSE get_rightmost(node.children[Len(node.children)])

get_rightmost(node) ==
  IF node.leaf
  THEN IF Len(node.keys) = 0 THEN [val |-> 0, err |-> "LeafMissingKeys"]
       ELSE [val |-> node.keys[Len(node.keys)], err |-> "none"]
  ELSE IF Len(node.children) = 0 THEN [val |-> 0, err |-> "NodeMissingChildren"]
       ELSE get_rightmost(node.children[Len(node.children)])

RECURSIVE get_leftmost(_)
get_leftmost(node) ==
  IF node.leaf
  THEN IF Len(node.keys) = 0 THEN [val |-> 0, err |-> "LeafMissingKeys"]
       ELSE [val |-> node.keys[1], err |-> "none"]
  ELSE IF Len(node.children) = 0 THEN [val |-> 0, err |-> "NodeMissingChildren"]
       ELSE get_leftmost(node.children[1])

\* rotate_right pushing the parent's key at the end of the right child's keys
rotate_right_Push(self, child_idx) ==
  LET middle_key == self.keys[child_idx]
      left == self.children[child_idx]
      right == self.children[child_idx + 1]
      last_key == left.keys[Len(left.keys)]
      left2 == [left EXCEPT
                  !.keys = SubSeq(left.keys, 1, Len(left.keys) - 1),
                  !.children = IF left.leaf THEN left.children
                               ELSE SubSeq(left.children, 1, Len(left.children) - 1)]
      right2 == [right EXCEPT
                   !.keys = Append(right.keys, middle_key),
                   !.children = IF left.leaf THEN right.children
                                ELSE InsertAt(right.children, 0,
                                              left.children[Len(left.children)])]
  IN Ok([self EXCEPT
           !.keys = InsertAt(RemoveAt(self.keys, child_idx - 1), child_idx - 1, last_key),
           !.children = [self.children EXCEPT ![child_idx] = left2,
                                              ![child_idx + 1] = right2]])

rotate_right(self, child_idx) ==
  IF child_idx - 1 >= Len(self.keys) THEN Fail(self, "RemoveOutOfBounds")
  ELSE IF child_idx >= Len(self.children) THEN Fail(self, "IndexOutOfBounds")
  ELSE
  LET middle_key == self.keys[child_idx]
      left == self.children[child_idx]
      right == self.children[child_idx + 1]
  IN
  IF Len(left.keys) = 0 THEN Fail(self, "LeftChildHasNoKeys")
  ELSE IF ~left.leaf /\ Len(left.children) = 0 THEN Fail(self, "LeftChildHasNoChildren")
  ELSE
  LET last_key == left.keys[Len(left.keys)]
      left2 == [left EXCEPT
                  !.keys = SubSeq(left.keys, 1, Len(left.keys) - 1),
                  !.children = IF left.leaf THEN left.children
                               ELSE SubSeq(left.children, 1, Len(left.children) - 1)]
      right2 == [right EXCEPT
                   !.keys = InsertAt(right.keys, 0, middle_key),
                   !.children = IF left.leaf THEN right.children
                                ELSE InsertAt(right.children, 0,
                                              left.children[Len(left.children)])]
  IN Ok([self EXCEPT
           !.keys = InsertAt(RemoveAt(self.keys, child_idx - 1), child_idx - 1, last_key),
           !.children = [self.children EXCEPT ![child_idx] = left2,
                                              ![child_idx + 1] = right2]])

rotate_left(self, child_idx) ==
  IF child_idx >= Len(self.keys) THEN Fail(self, "RemoveOutOfBounds")
  ELSE IF child_idx + 1 >= Len(self.children) THEN Fail(self, "IndexOutOfBounds")
  ELSE
  LET middle_key == self.keys[child_idx + 1]
      left == self.children[child_idx + 1]
      right == self.children[child_idx + 2]
  IN
  IF Len(right.keys) = 0 THEN Fail(self, "RemoveOutOfBounds")
  ELSE IF ~right.leaf /\ Len(right.children) = 0 THEN Fail(self, "RemoveOutOfBounds")
  ELSE
  LET first_key == right.keys[1]
      right2 == [right EXCEPT
                   !.keys = RemoveAt(right.keys, 0),
                   !.children = IF right.leaf THEN right.children
                                ELSE RemoveAt(right.children, 0)]
      left2 == [left EXCEPT
                  !.keys = Append(left.keys, middle_key),
                  !.children = IF right.leaf THEN left.children
                               ELSE Append(left.children, right.children[1])]
  IN Ok([self EXCEPT
           !.keys = InsertAt(RemoveAt(self.keys, child_idx), child_idx, first_key),
           !.children = [self.children EXCEPT ![child_idx + 1] = left2,
                                              ![child_idx + 2] = right2]])

\* merge that does not push the parent's separating key onto the left child
merge_DropSeparator(self, child_idx) ==
  IF child_idx >= Len(self.children) - 1 THEN Fail(self, "InvalidMergeIndex")
  ELSE
  LET right_child == self.children[child_idx + 2]
      left_child == self.children[child_idx + 1]
      merged == [left_child EXCEPT
                   !.keys = left_child.keys \o right_child.keys,
                   !.children = IF left_child.leaf THEN left_child.children
                                ELSE left_child.children \o right_child.children]
  IN Ok([self EXCEPT
           !.keys = RemoveAt(self.keys, child_idx),
           !.children = [RemoveAt(self.children, child_idx + 1)
                           EXCEPT ![child_idx + 1] = merged]])

\* merge that does not append the right child's children
merge_KeepChildren(self, child_idx) ==
  IF child_idx >= Len(self.children) - 1 THEN Fail(self, "InvalidMergeIndex")
  ELSE
  LET right_child == self.children[child_idx + 2]
      left_child == self.children[child_idx + 1]
      merged == [left_child EXCEPT
                   !.keys = Append(left_child.keys, self.keys[child_idx + 1])
                              \o right_child.keys]
  IN Ok([self EXCEPT
           !.keys = RemoveAt(self.keys, child_idx),
           !.children = [RemoveAt(self.children, child_idx + 1)
                           EXCEPT ![child_idx + 1] = merged]])

\* merge whose index check is off by one (child_idx + 1 >= children.len() - 1)
merge_GuardOffByOne(self, child_idx) ==
  IF child_idx + 1 >= Len(self.children) - 1 THEN Fail(self, "InvalidMergeIndex")
  ELSE
  LET right_child == self.children[child_idx + 2]
      left_child == self.children[child_idx + 1]
      merged == [left_child EXCEPT
                   !.keys = Append(left_child.keys, self.keys[child_idx + 1])
                              \o right_child.keys,
                   !.children = IF left_child.leaf THEN left_child.children
                                ELSE left_child.children \o right_child.children]
  IN Ok([self EXCEPT
           !.keys = RemoveAt(self.keys, child_idx),
           !.children = [RemoveAt(self.children, child_idx + 1)
                           EXCEPT ![child_idx + 1] = merged]])

merge(self, child_idx) ==
  IF child_idx >= Len(self.children) - 1 THEN Fail(self, "InvalidMergeIndex")
  ELSE IF child_idx >= Len(self.keys) THEN Fail(self, "RemoveOutOfBounds")
  ELSE
  LET middle_key == self.keys[child_idx + 1]
      right_child == self.children[child_idx + 2]
      left_child == self.children[child_idx + 1]
      merged == [left_child EXCEPT
                   !.keys = Append(left_child.keys, middle_key) \o right_child.keys,
                   !.children = IF left_child.leaf THEN left_child.children
                                ELSE left_child.children \o right_child.children]
  IN Ok([self EXCEPT
           !.keys = RemoveAt(self.keys, child_idx),
           !.children = [RemoveAt(self.children, child_idx + 1)
                           EXCEPT ![child_idx + 1] = merged]])

\* the surplus threshold (self.order - 1) / 2 + 1 of Node::delete
Threshold(self) == (self.order - 1) \div 2 + 1

RECURSIVE Node_delete(_, _)
\* self.children[i].delete(value), written back into self
delete_in_child(self, i, value) ==
  IF i >= Len(self.children) THEN Fail(self, "IndexOutOfBounds")
  ELSE LET child == self.children[i + 1]
           r == Node_delete(child, value)
           \* the branch "descend_below_threshold": the child recursed into holds
           \* fewer than (order - 1) / 2 + 1 keys at the moment of descent
           low == IF Len(child.keys) < Threshold(self)
                  THEN {"descend_below_threshold"} ELSE {}
           \* the branch "leaf_below_half": the child is a leaf and returns with
           \* fewer than (order - 1) / 2 keys
           half == IF child.leaf /\ r.err = "none"
                      /\ Len(r.node.keys) < (self.order - 1) \div 2
                   THEN {"leaf_below_half"} ELSE {}
       IN With(Fail([self EXCEPT !.children[i + 1] = r.node], r.err),
               r.ev \cup low \cup half)

Node_delete(self, value) ==
  LET s == Node_search(self, value)
      found == s[1]
      idx == s[2]
  IN
  IF found
  THEN IF self.leaf
       THEN \* Case 1
            With(Ok([self EXCEPT !.keys = RemoveAt(self.keys, idx)]), {"case1"})
       ELSE IF idx >= Len(self.children) THEN Fail(self, "IndexOutOfBounds")
       ELSE IF Len(self.children[idx + 1].keys) >= Threshold(self)
       THEN \* Case 2a
            LET pred == get_rightmost(self.children[idx + 1]) IN
            IF pred.err # "none" THEN With(Fail(self, pred.err), {"case2a"})
            ELSE LET d == delete_in_child(self, idx, pred.val) IN
                 IF d.err # "none" THEN With(d, {"case2a"})
                 ELSE With(Ok([d.node EXCEPT !.keys[idx + 1] = pred.val]),
                           d.ev \cup {"case2a"})
       ELSE IF idx + 1 >= Len(self.children) THEN Fail(self, "IndexOutOfBounds")
       ELSE IF Len(self.children[idx + 2].keys) >= Threshold(self)
       THEN \* Case 2b
            LET succ == get_leftmost(self.children[idx + 2]) IN
            IF succ.err # "none" THEN With(Fail(self, succ.err), {"case2b"})
            ELSE LET d == delete_in_child(self, idx + 1, succ.val) IN
                 IF d.err # "none" THEN With(d, {"case2b"})
                 ELSE With(Ok([d.node EXCEPT !.keys[idx + 1] = succ.val]),
                           d.ev \cup {"case2b"})
       ELSE \* Case 2c
            LET m == merge(self, idx) IN
            IF m.err # "none" THEN With(m, {"case2c"})
            ELSE With(delete_in_child(m.node, idx, value), {"case2c"})
  ELSE IF ~self.leaf
       THEN \* Case 3
            IF idx >= Len(self.children) THEN Fail(self, "IndexOutOfBounds")
            ELSE IF Len(self.children[idx + 1].keys) < Threshold(self)
            THEN IF idx > 0 /\ Len(self.children[idx].keys) >= Threshold(self)
                 THEN \* Case 3a
                      LET ro == rotate_right(self, idx) IN
                      IF ro.err # "none" THEN With(ro, {"case3a"})
                      ELSE With(delete_in_child(ro.node, idx, value), {"case3a"})
                 ELSE IF idx < Len(self.children) - 1
                         /\ Len(self.children[idx + 2].keys) >= Threshold(self)
                 THEN \* Case 3b
                      LET ro == rotate_left(self, idx) IN
                      IF ro.err # "none" THEN With(ro, {"case3b"})
                      ELSE With(delete_in_child(ro.node, idx, value), {"case3b"})
                 ELSE \* Case 3c
                      IF idx = Len(self.children) - 1
                      THEN IF idx = 0
                           THEN With(Fail(self, "SubtractOverflow"), {"case3c_last"})
                           ELSE LET m == merge(self, idx - 1) IN
                                IF m.err # "none" THEN With(m, {"case3c_last"})
                                ELSE With(delete_in_child(m.node, idx - 1, value),
                                          {"case3c_last"})
                      ELSE LET m == merge(self, idx) IN
                           IF m.err # "none" THEN With(m, {"case3c"})
                           ELSE With(delete_in_child(m.node, idx, value), {"case3c"})
            ELSE With(delete_in_child(self, idx, value), {"case3_descend"})
       ELSE \* Case 4
            With(Fail(self, "NotFound"), {"case4"})

\* BTree::delete returning at once when search does not find the value
BTree_delete_SilentIfAbsent(rt, value) ==
  IF ~BTree_search(rt, value).ret THEN [root |-> rt, err |-> "none", ev |-> {}]
  ELSE LET d == Node_delete(rt[1], value) IN
       IF d.err # "none" THEN [root |-> <<d.node>>, err |-> d.err, ev |-> d.ev]
       ELSE IF Len(d.node.keys) = 0 /\ Len(d.node.children) # 0
            THEN [root |-> <<d.node.children[1]>>, err |-> "none",
                  ev |-> d.ev \cup {"shrink"}]
            ELSE [root |-> <<d.node>>, err |-> "none", ev |-> d.ev]

\* BTree::delete returning normally when there is no root
BTree_delete_NoEmptyCheck(rt, value) ==
  IF Len(rt) = 0 THEN [root |-> rt, err |-> "none", ev |-> {}]
  ELSE LET d == Node_delete(rt[1], value) IN
       IF d.err # "none" THEN [root |-> <<d.node>>, err |-> d.err, ev |-> d.ev]
       ELSE IF Len(d.node.keys) = 0 /\ Len(d.node.children) # 0
            THEN [root |-> <<d.node.children[1]>>, err |-> "none",
                  ev |-> d.ev \cup {"shrink"}]
            ELSE [root |-> <<d.node>>, err |-> "none", ev |-> d.ev]

\* BTree::delete without the replacement of a keyless root by its child
BTree_delete_NoShrink(rt, value) ==
  IF Len(rt) = 0 THEN [root |-> rt, err |-> "EmptyTree", ev |-> {}]
  ELSE LET d == Node_delete(rt[1], value) IN
       [root |-> <<d.node>>, err |-> d.err, ev |-> d.ev]

\* BTree::delete: the new root (an Option) and the panic, if any
BTree_delete(rt, value) ==
  IF Len(rt) = 0 THEN [root |-> rt, err |-> "EmptyTree", ev |-> {}]
  ELSE LET d == Node_delete(rt[1], value) IN
       IF d.err # "none" THEN [root |-> <<d.node>>, err |-> d.err, ev |-> d.ev]
       ELSE IF Len(d.node.keys) = 0 /\ Len(d.node.children) # 0
            THEN [root |-> <<d.node.children[1]>>, err |-> "none",
                  ev |-> d.ev \cup {"shrink"}]
            ELSE [root |-> <<d.node>>, err |-> "none", ev |-> d.ev]

\* BTree::new asserting m >= 2
BTree_new_AcceptTwo(m) ==
  IF m >= 2 THEN [root |-> <<>>, order |-> m, err |-> "none"]
  ELSE [root |-> <<>>, order |-> m, err |-> "ConstructionError"]

\* BTree::new
BTree_new(m) ==
  IF m >= 3 THEN [root |-> <<>>, order |-> m, err |-> "none"]
  ELSE [root |-> <<>>, order |-> m, err |-> "ConstructionError"]

\* ------------------------------------------------------------ the program
Init ==
  /\ order \in Orders
  /\ root = BTree_new(order).root
  /\ present = {}
  /\ status = BTree_new(order).err
  /\ last = [op |-> "new", ev |-> {}]

\* insert of a value that is not in the tree
Insert(v) ==
  /\ status = "none"
  /\ v \notin present
  /\ LET r == BTree_insert(root, order, v) IN
       /\ root' = r.root
       /\ status' = r.err
  /\ present' = present \cup {v}
  /\ last' = [op |-> "insert", ev |-> BTree_insert(root, order, v).ev]
  /\ UNCHANGED order

\* delete of a value that is in the tree
Delete(v) ==
  /\ status = "none"
  /\ v \in present
  /\ LET r == BTree_delete(root, v) IN
       /\ root' = r.root
       /\ status' = r.err
  /\ present' = present \ {v}
  /\ last' = [op |-> "delete", ev |-> BTree_delete(root, v).ev]
  /\ UNCHANGED order

Next ==
  \/ \E v \in Values : Insert(v)
  \/ \E v \in Values : Delete(v)

Spec == Init /\ [][Next]_vars

TypeOK == status \in STRING

\* inserts only
NextInsert == \E v \in Values : Insert(v)

SpecInsert == Init /\ [][NextInsert]_vars

\* ------------------------------------------- calls that break a precondition
\* the orders BTree::new may be called with
AnyOrders == 0..MaxOrder

InitAny ==
  /\ order \in AnyOrders
  /\ root = BTree_new(order).root
  /\ present = {}
  /\ status = BTree_new(order).err
  /\ last = [op |-> "new", ev |-> {}]

\* delete of a value that is not in the tree
DeleteAbsent(v) ==
  /\ status = "none"
  /\ v \notin present
  /\ LET r == BTree_delete(root, v) IN
       /\ root' = r.root
       /\ status' = r.err
       /\ last' = [op |-> "delete_absent", ev |-> r.ev]
  /\ UNCHANGED <<order, present>>

NextMisuse ==
  \/ \E v \in Values : Insert(v)
  \/ \E v \in Values : Delete(v)
  \/ \E v \in Values : DeleteAbsent(v)

SpecMisuse == InitAny /\ [][NextMisuse]_vars

\* ------------------------------------------------------- search as a call
\* values searched for in the small specifications
SmallProbes == 0..(MaxValSmall + 1)

\* search(v): takes &self, so the tree is what it was; the call and its
\* answer are recorded
Search(v) ==
  /\ status = "none"
  /\ LET r == BTree_search(root, v) IN
       /\ status' = r.err
       /\ last' = [op |-> "search", ev |-> {}, arg |-> v, ret |-> r.ret]
  /\ UNCHANGED <<order, root, present>>

NextSearch ==
  \/ \E v \in SmallValues : Insert(v)
  \/ \E v \in SmallValues : Delete(v)
  \/ \E v \in SmallProbes : Search(v)

SpecSearch == Init /\ [][NextSearch]_vars

\* --------------------------------------------- short runs with their history
ScenarioValues == {1, 2, 3}

\* as Init; last also holds the calls made so far
InitScenario ==
  /\ order \in Orders
  /\ root = BTree_new(order).root
  /\ present = {}
  /\ status = BTree_new(order).err
  /\ last = [op |-> "new", ev |-> {}, hist |-> <<>>]

ScInsert(v) ==
  /\ status = "none"
  /\ v \notin present
  /\ Len(last.hist) < MaxHist
  /\ LET r == BTree_insert(root, order, v) IN
       /\ root' = r.root
       /\ status' = r.err
       /\ last' = [op |-> "insert", ev |-> r.ev,
                   hist |-> Append(last.hist, <<"insert", v>>)]
  /\ present' = present \cup {v}
  /\ UNCHANGED order

ScDelete(v) ==
  /\ status = "none"
  /\ v \in present
  /\ Len(last.hist) < MaxHist
  /\ LET r == BTree_delete(root, v) IN
       /\ root' = r.root
       /\ status' = r.err
       /\ last' = [op |-> "delete", ev |-> r.ev,
                   hist |-> Append(last.hist, <<"delete", v>>)]
  /\ present' = present \ {v}
  /\ UNCHANGED order

NextScenario ==
  \/ \E v \in ScenarioValues : ScInsert(v)
  \/ \E v \in ScenarioValues : ScDelete(v)

SpecScenario == InitScenario /\ [][NextScenario]_vars

\* ------------------------------------------------------ duplicate values
\* as Init; last also holds the values that are in the tree twice and the
\* argument of the call
InitDup ==
  /\ order \in Orders
  /\ root = BTree_new(order).root
  /\ present = {}
  /\ status = BTree_new(order).err
  /\ last = [op |-> "new", ev |-> {}, dup |-> {}, arg |-> 0]

\* insert of a value that is in the tree at most once
DupInsert(v) ==
  /\ status = "none"
  /\ v \notin last.dup
  /\ v \in present => Cardinality(last.dup) < MaxDup
  /\ LET r == BTree_insert(root, order, v) IN
       /\ root' = r.root
       /\ status' = r.err
       /\ last' = [op |-> IF v \in present THEN "insert_dup" ELSE "insert",
                   ev |-> r.ev,
                   dup |-> IF v \in present THEN last.dup \cup {v} ELSE last.dup,
                   arg |-> v]
  /\ present' = present \cup {v}
  /\ UNCHANGED order

\* delete of a value that is in the tree once or twice
DupDelete(v) ==
  /\ status = "none"
  /\ v \in present
  /\ LET r == BTree_delete(root, v) IN
       /\ root' = r.root
       /\ status' = r.err
       /\ last' = [op |-> IF v \in last.dup THEN "delete_dup" ELSE "delete",
                   ev |-> r.ev,
                   dup |-> last.dup \ {v},
                   arg |-> v]
  /\ present' = IF v \in last.dup THEN present ELSE present \ {v}
  /\ UNCHANGED order

NextDup ==
  \/ \E v \in SmallValues : DupInsert(v)
  \/ \E v \in SmallValues : DupDelete(v)

SpecDup == InitDup /\ [][NextDup]_vars

\* ------------------------------------- a large tree, then a few more calls
\* the values of the calls that follow the ascending inserts
FreeValues == 1..(MaxOrder + 1)

\* as Init; last also counts the ascending inserts and the calls after them
InitLarge ==
  /\ order \in Orders
  /\ root = BTree_new(order).root
  /\ present = {}
  /\ status = BTree_new(order).err
  /\ last = [op |-> "new", ev |-> {}, n |-> 0, free |-> 0]

\* the next of the inserts of 2, 4, 6, ... in ascending order
GrowInsert ==
  /\ status = "none"
  /\ last.n < MaxGrow
  /\ LET v == 2 * (last.n + 1)
         r == BTree_insert(root, order, v)
     IN /\ root' = r.root
        /\ status' = r.err
        /\ present' = present \cup {v}
        /\ last' = [op |-> "insert", ev |-> r.ev, n |-> last.n + 1, free |-> 0]
  /\ UNCHANGED order

\* after the ascending inserts: insert of a small value that is not in the tree
FreeInsert(v) ==
  /\ status = "none"
  /\ last.n = MaxGrow
  /\ last.free < MaxHist
  /\ v \notin present
  /\ LET r == BTree_insert(root, order, v) IN
       /\ root' = r.root
       /\ status' = r.err
       /\ last' = [op |-> "insert", ev |-> r.ev, n |-> last.n, free |-> last.free + 1]
  /\ present' = present \cup {v}
  /\ UNCHANGED order

\* after the ascending inserts: delete of a small value that is in the tree
FreeDelete(v) ==
  /\ status = "none"
  /\ last.n = MaxGrow
  /\ last.free < MaxHist
  /\ v \in present
  /\ LET r == BTree_delete(root, v) IN
       /\ root' = r.root
       /\ status' = r.err
       /\ last' = [op |-> "delete", ev |-> r.ev, n |-> last.n, free |-> last.free + 1]
  /\ present' = present \ {v}
  /\ UNCHANGED order

NextLarge ==
  \/ GrowInsert
  \/ \E v \in FreeValues : FreeInsert(v)
  \/ \E v \in FreeValues : FreeDelete(v)

SpecLarge == InitLarge /\ [][NextLarge]_vars

\* ------------------------------------------------- what is observed of a tree
Range(s) == {s[i] : i \in 1..Len(s)}

\* the nodes of a subtree, each with its depth below n (n itself at depth d)
RECURSIVE NodesAt(_, _)
NodesAt(n, d) ==
  {<<n, d>>} \cup UNION {NodesAt(n.children[i], d + 1) : i \in 1..Len(n.children)}

\* the keys stored in a subtree
RECURSIVE KeysOf(_)
KeysOf(n) == Range(n.keys) \cup UNION {KeysOf(n.children[i]) : i \in 1..Len(n.children)}

\* every node of the tree with its depth (the root at depth 0)
TreeNodes == IF Len(root) = 0 THEN {} ELSE NodesAt(root[1], 0)

NonRootNodes == {p \in TreeNodes : p[2] > 0}

Height == IF Len(root) = 0 THEN 0
          ELSE 1 + CHOOSE d \in {p[2] : p \in TreeNodes} :
                     \A e \in {p[2] : p \in TreeNodes} : e <= d

StrictlyAscending(s) == \A i \in 1..(Len(s) - 1) : s[i] < s[i + 1]

\* values searched for: the values of the model and one beyond each end
Probes == 0..(MaxVal + 1)

K == order - 1

Completed == status = "none"

\* --------------------------------------- the methods of Node, call by call
\* the values inserted and deleted between the calls below
NodeValues == 1..(MaxValSmall + 2)

\* the internal nodes of the tree: the nodes the methods below are called on
InternalNodes == {p[1] : p \in {q \in TreeNodes : ~q[1].leaf}}

\* the depth of every leaf of a subtree, from left to right (n at depth d)
RECURSIVE LeafDepths(_, _)
RECURSIVE LeafDepthsFrom(_, _, _)
LeafDepthsFrom(n, d, i) ==
  IF i > Len(n.children) THEN <<>>
  ELSE LeafDepths(n.children[i], d + 1) \o LeafDepthsFrom(n, d, i + 1)

LeafDepths(n, d) == IF n.leaf THEN <<d>> ELSE LeafDepthsFrom(n, d, 1)

\* a call of a method of Node on a node of the tree: the tree is left as it
\* is, the call (method, receiver, index, result) is recorded
Called(name, self, i, r) ==
  /\ status' = r.err
  /\ last' = [op |-> name, ev |-> r.ev, self |-> self, arg |-> i, ret |-> r.node]
  /\ UNCHANGED <<order, root, present>>

\* self.split_child(i) on a child that holds a key
SplitChild(self, i) ==
  /\ status = "none"
  /\ i < Len(self.children)
  /\ Len(self.children[i + 1].keys) >= 1
  /\ Called("split_child", self, i, split_child(self, i))

\* self.rotate_right(i): the left sibling of child i gives a key
RotateRight(self, i) ==
  /\ status = "none"
  /\ i >= 1
  /\ i < Len(self.children)
  /\ Len(self.children[i].keys) >= 1
  /\ Called("rotate_right", self, i, rotate_right(self, i))

\* self.rotate_left(i): the right sibling of child i gives a key
RotateLeft(self, i) ==
  /\ status = "none"
  /\ i + 1 < Len(self.children)
  /\ Len(self.children[i + 2].keys) >= 1
  /\ Called("rotate_left", self, i, rotate_left(self, i))

\* self.merge(i) of the children i and i + 1
Merge(self, i) ==
  /\ status = "none"
  /\ i + 1 < Len(self.children)
  /\ Called("merge", self, i, merge(self, i))

\* self.delete(v) for a key v of the internal node self, which is the root or
\* holds the keys Node::delete wants in a node it descends into
DeleteFound(self, v) ==
  /\ status = "none"
  /\ v \in Range(self.keys)
  /\ self = root[1] \/ Len(self.keys) >= Threshold(self)
  /\ Called("node_delete", self, Node_search(self, v)[2], Node_delete(self, v))

NextNode ==
  \/ \E v \in NodeValues : Insert(v)
  \/ \E v \in NodeValues : Delete(v)
  \/ \E self \in InternalNodes : \E i \in 0..MaxOrder : SplitChild(self, i)
  \/ \E self \in InternalNodes : \E i \in 0..MaxOrder : RotateRight(self, i)
  \/ \E self \in InternalNodes : \E i \in 0..MaxOrder : RotateLeft(self, i)
  \/ \E self \in InternalNodes : \E i \in 0..MaxOrder : Merge(self, i)
  \/ \E self \in InternalNodes : \E v \in NodeValues : DeleteFound(self, v)

SpecNode == Init /\ [][NextNode]_vars

\* ================================================================= claims

\* C1: after any sequence of inserts of pairwise distinct values into a new
\* tree of any order, search(v) returns true for every value that was
\* inserted and false for every value that was never inserted.
C1_SearchAfterInserts ==
  Completed =>
    \A v \in Probes :
      /\ v \in present => BTree_search(root, v) = [ret |-> TRUE, err |-> "none"]
      /\ v \notin present => BTree_search(root, v) = [ret |-> FALSE, err |-> "none"]

\* inserts alone have built a tree of three levels, the last one splitting
C1_Witness ==
  /\ Completed
  /\ last.op = "insert"
  /\ Height = 3
  /\ last.ev \cap {"preemptive_split", "deferred_split"} # {}
  /\ \A v \in present : BTree_search(root, v).ret

\* C2: under any interleaving of inserts of absent values and deletes of
\* present values the tree is a set: after every operation search(v) is true
\* exactly when v was inserted and not deleted since; once every inserted
\* value is deleted, search is false for all of them.
C2_SetUnderInsertDelete ==
  Completed =>
    /\ \A v \in Probes : BTree_search(root, v).err = "none"
    /\ {v \in Probes : BTree_search(root, v).ret} = present
    /\ present = {} => \A v \in Values : ~BTree_search(root, v).ret

\* the last of the inserted values has just been deleted
C2_Witness ==
  /\ Completed
  /\ last.op = "delete"
  /\ present = {}
  /\ Len(root) = 1
  /\ \A v \in Values : ~BTree_search(root, v).ret

\* C3: in every node the keys are strictly ascending, and for every internal
\* node and index i every key of the subtree children[i] is less than keys[i],
\* which is less than every key of the subtree children[i+1].
C3_SearchTreeOrdering ==
  Completed =>
    \A p \in TreeNodes :
      /\ StrictlyAscending(p[1].keys)
      /\ \A i \in 1..Len(p[1].keys) :
           /\ i <= Len(p[1].children)
                => \A k \in KeysOf(p[1].children[i]) : k < p[1].keys[i]
           /\ i + 1 <= Len(p[1].children)
                => \A k \in KeysOf(p[1].children[i + 1]) : p[1].keys[i] < k

\* a delete has rotated a key through a parent in a tree of three levels
C3_Witness ==
  /\ Completed
  /\ last.op = "delete"
  /\ last.ev \cap {"case3a", "case3b"} # {}
  /\ Height = 3

\* C4: after any completed insert or delete, for any order, every node holds
\* at most K = order - 1 keys and at most order children.
C4_MaxKeys ==
  Completed =>
    \A p \in TreeNodes : Len(p[1].keys) <= K /\ Len(p[1].children) <= order

\* C5: after any completed insert or delete, every non-root internal node
\* holds at least floor(K/2) keys and every non-root leaf at least ceil(K/2).
C5_MinKeys ==
  Completed =>
    \A p \in NonRootNodes :
      IF p[1].leaf THEN Len(p[1].keys) >= (K + 1) \div 2
      ELSE Len(p[1].keys) >= K \div 2

\* C6: after any sequence of completed inserts and deletes, all leaves of the
\* tree are at the same depth.
C6_LeavesSameDepth ==
  Completed =>
    \A p, q \in TreeNodes : (p[1].leaf /\ q[1].leaf) => p[2] = q[2]

\* a delete has replaced a keyless root by its only child, leaving an internal root
C6_Witness ==
  /\ Completed
  /\ last.op = "delete"
  /\ "shrink" \in last.ev
  /\ Height >= 2

\* C7: every node whose leaf flag is false has exactly keys.length + 1
\* children, and every node whose leaf flag is true has no children.
C7_NodeShape ==
  Completed =>
    \A p \in TreeNodes :
      IF p[1].leaf THEN Len(p[1].children) = 0
      ELSE Len(p[1].children) = Len(p[1].keys) + 1

\* a delete has merged two internal nodes (the leaves are two levels below)
C7_Witness ==
  /\ Completed
  /\ last.op = "delete"
  /\ last.ev \cap {"case2c", "case3c", "case3c_last"} # {}
  /\ "shrink" \in last.ev
  /\ Height = 2

\* C8: the in-order traversal emits a strictly ascending sequence that holds
\* exactly the keys currently present in the tree, each once.
C8_TraverseSorted ==
  Completed =>
    LET t == BTree_traverse(root) IN
      /\ StrictlyAscending(t)
      /\ Range(t) = present
      /\ Len(t) = Cardinality(present)

\* a traversal of a three-level tree after a delete that replaced a key of an
\* internal node
C8_Witness ==
  /\ Completed
  /\ last.op = "delete"
  /\ last.ev \cap {"case2a", "case2b"} # {}
  /\ Height = 3
  /\ Len(BTree_traverse(root)) >= 7

\* insert(v) followed by delete(v), from the current tree
RoundTrip(v) ==
  LET a == BTree_insert(root, order, v)
      b == BTree_delete(a.root, v)
  IN [root |-> b.root,
      err |-> IF a.err # "none" THEN a.err ELSE b.err,
      ev |-> a.ev \cup b.ev]

\* C9: for any reachable tree and any value v not in it, insert(v) followed by
\* delete(v) leaves search returning the same answer for every value as before
\* the insert.
C9_InsertDeleteRoundTrip ==
  Completed =>
    \A v \in Values \ present :
      /\ RoundTrip(v).err = "none"
      /\ \A u \in Probes : BTree_search(RoundTrip(v).root, u) = BTree_search(root, u)

\* a round trip that splits on the way in, merges on the way out and leaves a
\* tree of another shape
C9_Witness ==
  /\ Completed
  /\ \E v \in Values \ present :
       /\ RoundTrip(v).err = "none"
       /\ RoundTrip(v).root # root
       /\ RoundTrip(v).ev \cap {"preemptive_split", "deferred_split"} # {}
       /\ RoundTrip(v).ev \cap {"case2c", "case3c", "case3c_last"} # {}

\* C10: on any tree reachable by inserts of absent values and deletes of
\* present values no insert and no delete panics: no merge with the index of
\* the last child, no index out of range, no leaf without keys met by
\* get_rightmost or get_leftmost.
C10_NoAbort == status = "none"

\* a delete that had to merge the last child with its left sibling has returned
C10_Witness ==
  /\ status = "none"
  /\ last.op = "delete"
  /\ "case3c_last" \in last.ev
  /\ last.ev \cap {"case2a", "case2b"} # {}

\* C11: delete(v) of a value that is not in a tree that holds at least one key
\* always fails with the panic of Node::delete's case 4 (a leaf reached
\* without a match); it never returns normally.
C11_DeleteAbsentFails ==
  (last.op = "delete_absent" /\ present # {})
    => (status = "NotFound" /\ "case4" \in last.ev)

\* a delete of an absent value has descended through an internal root, merging
\* on the way, and failed at a leaf
C11_Witness ==
  /\ last.op = "delete_absent"
  /\ present # {}
  /\ status = "NotFound"
  /\ last.ev \cap {"case3c", "case3c_last"} # {}

\* C12: delete on a tree that holds no keys always fails and leaves the tree
\* holding no keys, both when there is no root (nothing was ever inserted) and
\* when every inserted value has been deleted (the root is a keyless leaf).
C12_DeleteOnEmptyFails ==
  (last.op = "delete_absent" /\ present = {})
    => /\ status # "none"
       /\ Len(root) = 0 => status = "EmptyTree"
       /\ Len(root) = 1 => (status = "NotFound" /\ KeysOf(root[1]) = {})
       /\ \A v \in Probes : ~BTree_search(root, v).ret

\* a delete has failed on a tree whose every inserted value had been deleted
C12_Witness ==
  /\ last.op = "delete_absent"
  /\ present = {}
  /\ Len(root) = 1
  /\ status = "NotFound"

\* C13: construct(order) fails for every order < 3 and, for every order >= 3,
\* returns an empty tree of that order in which search(v) is false for every v.
C13_Construct ==
  last.op = "new" =>
    IF order < 3 THEN status = "ConstructionError"
    ELSE /\ status = "none"
         /\ root = <<>>
         /\ BTree_new(order).order = order
         /\ \A v \in Probes : BTree_search(root, v) = [ret |-> FALSE, err |-> "none"]

\* the constructor has been called with order 2 and has failed
C13_Witness ==
  /\ last.op = "new"
  /\ order = 2
  /\ status = "ConstructionError"

\* C14: when delete(v) fails because v is not in the tree, the tree (the root
\* and every node's keys and children) is identical to what it was before the
\* call.
C14_FailedDeleteLeavesTree ==
  [][(last'.op = "delete_absent" /\ status' # "none") => root' = root]_vars

\* C15: search never fails and has no side effects: on any reachable tree, the
\* empty one included, and for any value it returns a boolean (the membership
\* of the value) without a panic, leaves the tree unchanged, and gives the same
\* answer when it is repeated.
C15_SearchPure ==
  [][last'.op = "search" =>
       /\ status' = "none"
       /\ last'.ret = (last'.arg \in present)
       /\ root' = root
       /\ (last.op = "search" /\ last.arg = last'.arg) => last'.ret = last.ret]_vars

\* a search for a value above every key has gone down a three-level tree
\* through the last child of each node and returned false
C15_Witness ==
  /\ last.op = "search"
  /\ status = "none"
  /\ Height = 3
  /\ ~last.ret
  /\ last.arg = MaxValSmall + 1

\* the facade's split of the old root under a new root (lines 91-94, 99-103)
RootSplit == {"root_split_before", "root_split_after"}

\* C16: after every completed delete the root is never an internal node with
\* zero keys; a delete lowers the height by at most one, the replacement of a
\* keyless root by its only child is the only step that lowers it (and lowers
\* it by one), and insert never lowers it.
C16_RootShrink ==
  /\ [](( Completed /\ last.op = "delete" /\ Len(root) = 1)
          => ~(~root[1].leaf /\ Len(root[1].keys) = 0))
  /\ [][status' = "none" =>
          /\ last'.op = "delete" =>
               /\ Height' >= Height - 1
               /\ Height' < Height => "shrink" \in last'.ev
               /\ "shrink" \in last'.ev => Height' = Height - 1
          /\ last'.op = "insert" => Height' >= Height]_vars

\* a delete has replaced a keyless root by its only child, a leaf with keys
C16_Witness ==
  /\ Completed
  /\ last.op = "delete"
  /\ "shrink" \in last.ev
  /\ Height = 1
  /\ present # {}

\* C17: an insert into a tree that has a root raises the height by at most
\* one, and only by the facade putting a new root above the old root and
\* splitting the old root in two; a split below the root raises nothing, and
\* no delete raises the height.
C17_HeightGrowth ==
  [][status' = "none" =>
       /\ Height' <= Height + 1
       /\ last'.op = "delete" => Height' <= Height
       /\ (last'.op = "insert" /\ Len(root) = 1 /\ Height' > Height)
            => /\ last'.ev \cap RootSplit # {}
               /\ Len(root'[1].keys) = 1
               /\ Len(root'[1].children) = 2
       /\ (last'.op = "insert" /\ Len(root) = 1 /\ last'.ev \cap RootSplit = {})
            => Height' = Height]_vars

\* an insert has found the internal root full, split it under a new root and
\* made a tree of three levels
C17_Witness ==
  /\ Completed
  /\ last.op = "insert"
  /\ "root_split_before" \in last.ev
  /\ Height = 3
  /\ Len(root[1].keys) = 1

\* insert 1, 2, 3, then delete 1, delete 2
Scenario18 ==
  << <<"insert", 1>>, <<"insert", 2>>, <<"insert", 3>>, <<"delete", 1>>, <<"delete", 2>> >>

\* C18: on a new tree of order 3, after insert 1, 2, 3 and then delete 1 and
\* delete 2, the root is a leaf holding exactly the single key 3, and
\* search(3) is true.
C18_ScenarioRootShrinks ==
  (order = 3 /\ last.hist = Scenario18)
    => /\ status = "none"
       /\ root = <<[keys |-> <<3>>, children |-> <<>>, leaf |-> TRUE, order |-> 3]>>
       /\ BTree_search(root, 3) = [ret |-> TRUE, err |-> "none"]

\* the five calls of the scenario have been made on a tree of order 3
C18_Witness ==
  /\ order = 3
  /\ last.hist = Scenario18
  /\ last.op = "delete"
  /\ present = {3}

\* C19: duplicates are accepted and delete removes one occurrence: the second
\* insert of a value returns normally; a delete of a value that is in the tree
\* twice returns normally and search still finds the value; a second delete
\* returns normally too and search then does not find it; search for every
\* other value is unaffected throughout.
C19_DuplicateInsertDelete ==
  /\ status = "none"
  /\ \A v \in SmallProbes :
       BTree_search(root, v) = [ret |-> v \in present, err |-> "none"]
  /\ Len(BTree_traverse(root)) = Cardinality(present) + Cardinality(last.dup)

\* one of the two occurrences of a value has been deleted from a tree with
\* internal nodes, and the value is still found
C19_Witness ==
  /\ status = "none"
  /\ last.op = "delete_dup"
  /\ BTree_search(root, last.arg).ret
  /\ last.arg \in Range(root[1].keys)
  /\ Height >= 2

\* C20: for every order > 3, whenever insert_non_full is invoked on a node
\* (the root or a child being descended into), that node holds strictly fewer
\* than K = order - 1 keys at that moment.
C20_InsertIntoNonFull ==
  (order > 3 /\ last.op = "insert") => "on_full_node" \notin last.ev

\* C21: deferred splitting for order 3: an insert into an order-3 tree that
\* returned has split (deferred_split) every non-root node it made hold more
\* than 2 keys, so that no call of insert_non_full on an internal node
\* returned with a child holding more than 2 keys.
C21_DeferredSplit ==
  (order = 3 /\ last.op = "insert" /\ Completed)
    => "overfull_child_on_return" \notin last.ev

\* C22: rebalance before descent: in a delete of a present value every
\* non-root node the deletion recurses into holds at least
\* floor((order - 1) / 2) + 1 keys at the moment of descent, a key removed from
\* a non-root leaf leaves it at least floor((order - 1) / 2) keys, and no
\* non-root leaf is empty afterwards.
C22_RebalanceBeforeDescent ==
  (last.op = "delete" /\ Completed) =>
    /\ "descend_below_threshold" \notin last.ev
    /\ "leaf_below_half" \notin last.ev
    /\ \A p \in NonRootNodes : p[1].leaf => Len(p[1].keys) > 0

\* C23: split_child(i) on a child holding n keys, with mid = floor(n / 2):
\* the child keeps its first mid keys, key mid goes into the parent's keys at
\* index i, a new right sibling with the n - mid - 1 keys after mid (and, for
\* an internal child, the children after position mid) goes into the parent's
\* children at index i + 1; the in-order key sequence of the parent's subtree
\* is unchanged and both halves have the leaf flag of the original child.
C23_SplitChild ==
  (last.op = "split_child") =>
    LET p == last.self
        q == last.ret
        i == last.arg
        c == p.children[i + 1]
        n == Len(c.keys)
        mid == n \div 2
        l == q.children[i + 1]
        r == q.children[i + 2]
    IN /\ Completed
       /\ l.keys = SubSeq(c.keys, 1, mid)
       /\ q.keys = InsertAt(p.keys, i, c.keys[mid + 1])
       /\ r.keys = SubSeq(c.keys, mid + 2, n)
       /\ Len(r.keys) = n - mid - 1
       /\ c.leaf => l.children = <<>> /\ r.children = <<>>
       /\ ~c.leaf => /\ l.children = SubSeq(c.children, 1, mid + 1)
                     /\ r.children = SubSeq(c.children, mid + 2, Len(c.children))
       /\ Len(q.children) = Len(p.children) + 1
       /\ \A j \in 1..Len(p.children) :
            /\ j < i + 1 => q.children[j] = p.children[j]
            /\ j > i + 1 => q.children[j + 1] = p.children[j]
       /\ Node_traverse(q) = Node_traverse(p)
       /\ l.leaf = c.leaf
       /\ r.leaf = c.leaf
       /\ q.leaf = p.leaf

\* split_child has been called on an internal child that holds two keys or more
C23_Witness ==
  /\ last.op = "split_child"
  /\ Completed
  /\ ~last.self.children[last.arg + 1].leaf
  /\ Len(last.self.children[last.arg + 1].keys) >= 2
  /\ Len(last.ret.children) = Len(last.self.children) + 1

\* C24: deleting a key found in an internal node at index i: if children[i]
\* holds at least floor((order - 1) / 2) + 1 keys the key is replaced by its
\* in-order predecessor, which is deleted from that subtree; otherwise, if
\* children[i + 1] holds that many, by its in-order successor, which is
\* deleted from that subtree; otherwise the two children are merged around
\* the key and the key is deleted from the merged node.  In every case
\* exactly the target key leaves the key set of the subtree.
C24_DeleteFromInternal ==
  (last.op = "node_delete") =>
    LET p == last.self
        q == last.ret
        i == last.arg
        v == p.keys[i + 1]
        t == (p.order - 1) \div 2 + 1
        l == p.children[i + 1]
        r == p.children[i + 2]
        inl == Node_traverse(l)
        inr == Node_traverse(r)
        Other(x) == x # v
    IN /\ Completed
       /\ Node_traverse(q) = SelectSeq(Node_traverse(p), Other)
       /\ KeysOf(q) = KeysOf(p) \ {v}
       /\ IF Len(l.keys) >= t
          THEN /\ "case2a" \in last.ev
               /\ q.keys = [p.keys EXCEPT ![i + 1] = inl[Len(inl)]]
               /\ Len(q.children) = Len(p.children)
               /\ Node_traverse(q.children[i + 1]) = SubSeq(inl, 1, Len(inl) - 1)
               /\ \A j \in 1..Len(p.children) : j # i + 1 => q.children[j] = p.children[j]
          ELSE IF Len(r.keys) >= t
          THEN /\ "case2b" \in last.ev
               /\ q.keys = [p.keys EXCEPT ![i + 1] = inr[1]]
               /\ Len(q.children) = Len(p.children)
               /\ Node_traverse(q.children[i + 2]) = SubSeq(inr, 2, Len(inr))
               /\ \A j \in 1..Len(p.children) : j # i + 2 => q.children[j] = p.children[j]
          ELSE /\ "case2c" \in last.ev
               /\ q.keys = RemoveAt(p.keys, i)
               /\ Len(q.children) = Len(p.children) - 1
               /\ Node_traverse(q.children[i + 1]) = inl \o inr
               /\ \A j \in 1..Len(p.children) :
                    /\ j < i + 1 => q.children[j] = p.children[j]
                    /\ j > i + 2 => q.children[j - 1] = p.children[j]

\* a key has been deleted from an internal node whose two children around it
\* are internal and both below the threshold: they were merged around the key
C24_Witness ==
  /\ last.op = "node_delete"
  /\ Completed
  /\ "case2c" \in last.ev
  /\ ~last.self.children[last.arg + 1].leaf
  /\ Len(last.self.children[last.arg + 1].keys) < (last.self.order - 1) \div 2 + 1
  /\ Len(last.self.children[last.arg + 2].keys) < (last.self.order - 1) \div 2 + 1
  /\ Len(last.ret.children) = Len(last.self.children) - 1

\* C25: rotate_right(i) and rotate_left(i) each move one key from the donor
\* sibling up into the parent and one parent key down into children[i] (and,
\* for internal siblings, one child from donor to receiver): the parent's key
\* count and child count are unchanged, the donor loses one key, the receiver
\* gains one, the in-order key sequence of the parent's subtree is unchanged
\* and so is the depth of every leaf.
C25_Rotate ==
  (last.op \in {"rotate_right", "rotate_left"}) =>
    LET p == last.self
        q == last.ret
        i == last.arg
        right == last.op = "rotate_right"
        \* positions (from 1) of the receiver, the donor and the parent key between
        rcv == i + 1
        don == IF right THEN i ELSE i + 2
        sep == IF right THEN i ELSE i + 1
        d == p.children[don]
        c == p.children[rcv]
        d2 == q.children[don]
        c2 == q.children[rcv]
        moved == IF right THEN d.keys[Len(d.keys)] ELSE d.keys[1]
    IN /\ Completed
       /\ Len(q.keys) = Len(p.keys)
       /\ Len(q.children) = Len(p.children)
       /\ q.keys = [p.keys EXCEPT ![sep] = moved]
       /\ Len(d2.keys) = Len(d.keys) - 1
       /\ Len(c2.keys) = Len(c.keys) + 1
       /\ d2.keys = IF right THEN SubSeq(d.keys, 1, Len(d.keys) - 1)
                    ELSE SubSeq(d.keys, 2, Len(d.keys))
       /\ c2.keys = IF right THEN <<p.keys[sep]>> \o c.keys
                    ELSE Append(c.keys, p.keys[sep])
       /\ d.leaf => d2.children = d.children /\ c2.children = c.children
       /\ ~d.leaf =>
            /\ d2.children = IF right THEN SubSeq(d.children, 1, Len(d.children) - 1)
                             ELSE SubSeq(d.children, 2, Len(d.children))
            /\ c2.children = IF right THEN <<d.children[Len(d.children)]>> \o c.children
                             ELSE Append(c.children, d.children[1])
       /\ \A j \in 1..Len(p.children) :
            j \notin {don, rcv} => q.children[j] = p.children[j]
       /\ Node_traverse(q) = Node_traverse(p)
       /\ LeafDepths(q, 0) = LeafDepths(p, 0)

\* rotate_right has moved a key and a child between two internal siblings
C25_Witness ==
  /\ last.op = "rotate_right"
  /\ Completed
  /\ ~last.self.children[last.arg].leaf
  /\ Len(last.ret.children[last.arg + 1].children)
       = Len(last.self.children[last.arg + 1].children) + 1

\* C26: merge(i) with a valid adjacent pair: the parent loses its key at index
\* i and its child at index i + 1; children[i] then holds its former keys,
\* the separating key and the keys of the former right sibling (and, for
\* internal nodes, its former children followed by the right sibling's); the
\* in-order key sequence of the parent's subtree is unchanged and no key or
\* subtree is lost or duplicated.
C26_Merge ==
  (last.op = "merge") =>
    LET p == last.self
        q == last.ret
        i == last.arg
        l == p.children[i + 1]
        r == p.children[i + 2]
        m == q.children[i + 1]
    IN /\ Completed
       /\ q.keys = RemoveAt(p.keys, i)
       /\ Len(q.children) = Len(p.children) - 1
       /\ m.keys = l.keys \o <<p.keys[i + 1]>> \o r.keys
       /\ l.leaf => m.children = <<>>
       /\ ~l.leaf => m.children = l.children \o r.children
       /\ m.leaf = l.leaf
       /\ \A j \in 1..Len(p.children) :
            /\ j < i + 1 => q.children[j] = p.children[j]
            /\ j > i + 2 => q.children[j - 1] = p.children[j]
       /\ Node_traverse(q) = Node_traverse(p)
       /\ StrictlyAscending(Node_traverse(q))
       /\ Len(LeafDepths(q, 0)) = Len(LeafDepths(p, 0)) - (IF l.leaf THEN 1 ELSE 0)

\* merge has joined two internal children of a node around their separating key
C26_Witness ==
  /\ last.op = "merge"
  /\ Completed
  /\ ~last.self.children[last.arg + 1].leaf
  /\ Len(last.ret.children[last.arg + 1].children)
       = Len(last.self.children[last.arg + 1].children)
         + Len(last.self.children[last.arg + 2].children)
  /\ Len(last.ret.keys) = Len(last.self.keys) - 1

====
